---------------------------- MODULE Spec2Model ----------------------------
(***************************************************************************)
(* Model of check.js, the used-Model-3 inventory alert: credential check,  *)
(* cookie fetch, inventory fetch, extraction and filter of every record,   *)
(* one Telegram message per match, and the top-level catch handler.        *)
(*                                                                         *)
(* JSON values are modelled by their JavaScript type; numbers are exact    *)
(* decimals m / 10^e (or an infinity, which JSON.parse yields for a        *)
(* literal such as 1e999); strings are sequences of one-character strings. *)
(***************************************************************************)
EXTENDS Integers, Sequences, FiniteSets, TLC

(***************************************************************************)
(* Bounds of the model.                                                    *)
(***************************************************************************)
\* Longest result list the inventory response carries.
MaxResults == 2
\* Most range candidates a record handed to extractRangeKm alone carries.
MaxPresent == 3

(***************************************************************************)
(* Program constants.                                                      *)
(***************************************************************************)
TARGET_PRICE_EUR == 29000
MIN_RANGE_KM == 600
\* Estimates of the trim-label fallback of extractRangeKm.
LongRangeKm == 620
PerformanceKm == 560
StandardRangeKm == 490

(***************************************************************************)
(* Numbers.  A finite number is m / 10^e with no trailing zero in m when   *)
(* e > 0, so that equal numbers are equal records.                         *)
(***************************************************************************)
RECURSIVE Pow10(_)
Pow10(n) == IF n = 0 THEN 1 ELSE 10 * Pow10(n - 1)

RECURSIVE Dec(_, _)
Dec(m, e) ==
  IF e > 0 /\ m % 10 = 0 THEN Dec(m \div 10, e - 1)
  ELSE [k |-> "fin", m |-> m, e |-> e]

Int2Num(n) == Dec(n, 0)
PosInf == [k |-> "inf", m |-> 1, e |-> 0]
NegInf == [k |-> "inf", m |-> -1, e |-> 0]
\* JavaScript null, as a result of numberFrom and of the extractors.
NULL == [k |-> "null", m |-> 0, e |-> 0]
\* typeof n === "number"
IsNumber(n) == n.k \in {"fin", "inf"}
IsFiniteNum(n) == n.k = "fin"

\* a < b on JavaScript numbers (no NaN arises: see numberFrom).
NumLess(a, b) ==
  CASE a.k = "fin" /\ b.k = "fin" -> a.m * Pow10(b.e) < b.m * Pow10(a.e)
    [] a.k = "inf" /\ b.k = "fin" -> a.m < 0
    [] a.k = "fin" /\ b.k = "inf" -> b.m > 0
    [] OTHER -> a.m < b.m

(***************************************************************************)
(* JSON values.                                                            *)
(***************************************************************************)
Undefined == [t |-> "undefined"]
JsNull == [t |-> "null"]
BoolV(b) == [t |-> "boolean", b |-> b]
NumV(n) == [t |-> "number", n |-> n]
StrV(s) == [t |-> "string", s |-> s]
ObjV(f) == [t |-> "object", f |-> f]
ArrV(a) == [t |-> "array", a |-> a]

\* The truthiness of a value, as the conditional and || read it.
Truthy(v) ==
  CASE v.t \in {"undefined", "null"} -> FALSE
    [] v.t = "boolean" -> v.b
    [] v.t = "number" -> ~(v.n.k = "fin" /\ v.n.m = 0)
    [] v.t = "string" -> Len(v.s) > 0
    [] OTHER -> TRUE

\* o[k] for a value o that is neither null nor undefined.
Get(o, k) ==
  IF o.t = "object" /\ k \in DOMAIN o.f THEN o.f[k] ELSE Undefined

\* o?.[k]
OptGet(o, k) ==
  IF o.t \in {"undefined", "null"} THEN Undefined ELSE Get(o, k)

(***************************************************************************)
(* numberFrom: a number passes through; a string is stripped of every      *)
(* character that is neither a digit nor a point, and parseFloat reads the *)
(* longest prefix of the rest that is a decimal literal.                   *)
(***************************************************************************)
Digits == <<"0", "1", "2", "3", "4", "5", "6", "7", "8", "9">>
IsDigit(c) == \E i \in 1..10 : Digits[i] = c
DigitVal(c) == (CHOOSE i \in 1..10 : Digits[i] = c) - 1

\* v.replace(/[^\d.]/g, "")
StripNonNumeric(s) == SelectSeq(s, LAMBDA c : IsDigit(c) \/ c = ".")

\* The number of leading digits of s from position i on.
RECURSIVE DigitRun(_, _)
DigitRun(s, i) ==
  IF i <= Len(s) /\ IsDigit(s[i]) THEN 1 + DigitRun(s, i + 1) ELSE 0

RECURSIVE DigitsValue(_, _, _)
DigitsValue(s, from, n) ==
  IF n = 0 THEN 0
  ELSE 10 * DigitsValue(s, from, n - 1) + DigitVal(s[from + n - 1])

\* parseFloat on a string of digits and points; NULL stands for NaN here.
ParseFloat(s) ==
  LET n1 == DigitRun(s, 1)
      hasPoint == n1 + 1 <= Len(s) /\ s[n1 + 1] = "."
      n2 == IF hasPoint THEN DigitRun(s, n1 + 2) ELSE 0
  IN IF n1 = 0 /\ n2 = 0 THEN NULL
     ELSE Dec(DigitsValue(s, 1, n1) * Pow10(n2) + DigitsValue(s, n1 + 2, n2), n2)

numberFrom(v) ==
  CASE v.t = "number" -> v.n
    [] v.t = "string" -> ParseFloat(StripNonNumeric(v.s))
    [] OTHER -> NULL

(***************************************************************************)
(* pick: follow a path of keys, stopping with undefined at a falsy value.  *)
(***************************************************************************)
RECURSIVE PickFrom(_, _, _)
PickFrom(o, path, i) ==
  IF i > Len(path) THEN o
  ELSE PickFrom(IF Truthy(o) THEN Get(o, path[i]) ELSE Undefined, path, i + 1)

pick(obj, path) == PickFrom(obj, path, 1)

(***************************************************************************)
(* extractPrice: the first of four keys whose value numberFrom turns into  *)
(* a number.                                                               *)
(***************************************************************************)
PriceKeys == <<"PurchasePrice", "Price", "TotalPrice", "TotalPriceAndFees">>

RECURSIVE PriceFrom(_, _)
PriceFrom(item, i) ==
  IF i > Len(PriceKeys) THEN NULL
  ELSE LET n == numberFrom(OptGet(item, PriceKeys[i]))
       IN IF IsNumber(n) THEN n ELSE PriceFrom(item, i + 1)

extractPrice_LastWins(item) ==
  LET hits == {i \in 1..Len(PriceKeys) :
                 IsNumber(numberFrom(OptGet(item, PriceKeys[i])))}
  IN IF hits = {} THEN NULL
     ELSE numberFrom(OptGet(item, PriceKeys[CHOOSE i \in hits : \A j \in hits : j <= i]))

extractPrice(item) == PriceFrom(item, 1)

(***************************************************************************)
(* The trim-label patterns of extractRangeKm.  A pattern is a sequence of  *)
(* tokens: a character, "\\s*" (any run of white space) or "[-\\s]*" (any  *)
(* run of hyphens and white space).  Every run is followed by a letter, so *)
(* the greedy match is the only one.                                       *)
(***************************************************************************)
UpperCase == <<"A", "B", "C", "D", "E", "F", "G", "H", "I", "J", "K", "L", "M",
               "N", "O", "P", "Q", "R", "S", "T", "U", "V", "W", "X", "Y", "Z">>
LowerCase == <<"a", "b", "c", "d", "e", "f", "g", "h", "i", "j", "k", "l", "m",
               "n", "o", "p", "q", "r", "s", "t", "u", "v", "w", "x", "y", "z">>

ToLowerChar(c) ==
  IF \E i \in 1..26 : UpperCase[i] = c
  THEN LowerCase[CHOOSE i \in 1..26 : UpperCase[i] = c]
  ELSE c

\* s.toLowerCase()
ToLowerCase(s) == [i \in 1..Len(s) |-> ToLowerChar(s[i])]

IsSpace(c) == c \in {" ", "\t", "\n"}
\* \w
IsWordChar(c) ==
  \/ \E i \in 1..26 : LowerCase[i] = c \/ UpperCase[i] = c
  \/ IsDigit(c)
  \/ c = "_"

\* \b before position i of s (i = Len(s) + 1: at the end).
WordBoundary(s, i) ==
  LET before == i > 1 /\ IsWordChar(s[i - 1])
      after == i <= Len(s) /\ IsWordChar(s[i])
  IN before # after

RECURSIVE RunEnd(_, _, _)
RunEnd(s, i, hyphen) ==
  IF i <= Len(s) /\ (IsSpace(s[i]) \/ (hyphen /\ s[i] = "-"))
  THEN RunEnd(s, i + 1, hyphen) ELSE i

\* The position after a match of pat[p..] at position i of s, or 0.
RECURSIVE MatchEnd(_, _, _, _)
MatchEnd(s, i, pat, p) ==
  IF p > Len(pat) THEN i
  ELSE IF pat[p] = "\\s*" THEN MatchEnd(s, RunEnd(s, i, FALSE), pat, p + 1)
  ELSE IF pat[p] = "[-\\s]*" THEN MatchEnd(s, RunEnd(s, i, TRUE), pat, p + 1)
  ELSE IF i <= Len(s) /\ s[i] = pat[p] THEN MatchEnd(s, i + 1, pat, p + 1)
  ELSE 0

\* /\b(alt1|alt2|...)\b/.test(s)
TestWords(s, alts) ==
  \E i \in 1..(Len(s) + 1) : \E a \in 1..Len(alts) :
    LET j == MatchEnd(s, i, alts[a], 1)
    IN j # 0 /\ WordBoundary(s, i) /\ WordBoundary(s, j)

\* /pat/.test(s)
TestPlain(s, pat) == \E i \in 1..(Len(s) + 1) : MatchEnd(s, i, pat, 1) # 0

LongRangeAlts ==
  << <<"l", "o", "n", "g", "\\s*", "r", "a", "n", "g", "e">>,
     <<"m", "a", "x", "i", "m", "a", "l", "e", "\\s*",
       "r", "e", "i", "c", "h", "w", "e", "i", "t", "e">>,
     <<"l", "r">> >>
PerformancePat == <<"p", "e", "r", "f", "o", "r", "m", "a", "n", "c", "e">>
StandardRangeAlts ==
  << <<"s", "t", "a", "n", "d", "a", "r", "d", "\\s*", "r", "a", "n", "g", "e">>,
     <<"r", "e", "a", "r", "[-\\s]*", "w", "h", "e", "e", "l">>,
     <<"h", "e", "c", "k", "a", "n", "t", "r", "i", "e", "b">> >>

(***************************************************************************)
(* extractRangeKm: the first of nine paths whose value numberFrom turns    *)
(* into a number; failing all, an estimate from the trim label.  The label *)
(* is item?.TrimName || item?.Trim || item?.SpecName || "", and            *)
(* .toLowerCase() is called on it whatever its type: on a value that is    *)
(* not a string the call raises a TypeError, modelled by THROWN.           *)
(***************************************************************************)
RangePaths ==
  << <<"Range">>, <<"WLTPRange">>, <<"BatteryRange">>, <<"EUCombinedRange">>,
     <<"Spec", "Range">>, <<"Spec", "WLTPRange">>, <<"Spec", "EUCombinedRange">>,
     <<"Spec", "wltp_range">>, <<"Spec", "range">> >>

\* The completion of a call that raised.
THROWN == [k |-> "throw", m |-> 0, e |-> 0]

TrimKeys == <<"TrimName", "Trim", "SpecName">>

\* a || b || c || ""
RECURSIVE FirstTruthy(_, _, _)
FirstTruthy(item, keys, i) ==
  IF i > Len(keys) THEN StrV(<<>>)
  ELSE LET v == OptGet(item, keys[i])
       IN IF Truthy(v) THEN v ELSE FirstTruthy(item, keys, i + 1)

TrimLabel(item) == FirstTruthy(item, TrimKeys, 1)

RangeFromTrim(item) ==
  LET label == TrimLabel(item)
  IN IF label.t # "string" THEN THROWN
     ELSE LET trim == ToLowerCase(label.s)
          IN IF TestWords(trim, LongRangeAlts) THEN Int2Num(LongRangeKm)
             ELSE IF TestPlain(trim, PerformancePat) THEN Int2Num(PerformanceKm)
             ELSE IF TestWords(trim, StandardRangeAlts) THEN Int2Num(StandardRangeKm)
             ELSE NULL

RECURSIVE RangeFrom(_, _)
RangeFrom(item, i) ==
  IF i > Len(RangePaths) THEN RangeFromTrim(item)
  ELSE LET n == numberFrom(pick(item, RangePaths[i]))
       IN IF IsNumber(n) THEN n ELSE RangeFrom(item, i + 1)

extractRangeKm(item) == RangeFrom(item, 1)

(***************************************************************************)
(* The filter loop of main.  results is data?.results || data?.Results ||  *)
(* []; for..of raises a TypeError on a value that is not iterable; a       *)
(* string iterates over its characters.                                    *)
(***************************************************************************)
ResultsOf(d) ==
  LET lower == OptGet(d, "results")
      upper == OptGet(d, "Results")
  IN IF Truthy(lower) THEN lower
     ELSE IF Truthy(upper) THEN upper
     ELSE ArrV(<<>>)

IsIterable(v) == v.t \in {"array", "string"}

ItemsOf(v) ==
  IF v.t = "array" THEN v.a
  ELSE [i \in 1..Len(v.s) |-> StrV(<<v.s[i]>>)]

\* price == null || rangeKm == null -> continue; then the two thresholds.
Keeps_NotStrict(price, rangeKm) ==
  /\ price # NULL
  /\ rangeKm # NULL
  /\ ~NumLess(Int2Num(TARGET_PRICE_EUR), price)
  /\ ~NumLess(rangeKm, Int2Num(MIN_RANGE_KM))

Keeps(price, rangeKm) ==
  /\ price # NULL
  /\ rangeKm # NULL
  /\ NumLess(price, Int2Num(TARGET_PRICE_EUR))
  /\ NumLess(Int2Num(MIN_RANGE_KM), rangeKm)

\* The loop from record i on, with the matches so far: the matches, whether
\* an extraction raised (the loop is then abandoned) and the number of
\* records whose extraction returned.  pos, the record's place in the
\* result list, is kept for the notification order.
RECURSIVE FilterFrom(_, _, _)
FilterFrom(items, i, acc) ==
  IF i > Len(items) THEN [threw |-> FALSE, matches |-> acc, scanned |-> i - 1]
  ELSE LET price == extractPrice(items[i])
           rangeKm == extractRangeKm(items[i])
       IN IF rangeKm = THROWN
          THEN [threw |-> TRUE, matches |-> acc, scanned |-> i - 1]
          ELSE IF Keeps(price, rangeKm)
          THEN FilterFrom(items, i + 1,
                 Append(acc, [item |-> items[i], price |-> price,
                              rangeKm |-> rangeKm, pos |-> i]))
          ELSE FilterFrom(items, i + 1, acc)

FilterLoop(d) ==
  LET results == ResultsOf(d)
  IN IF ~IsIterable(results)
     THEN [threw |-> TRUE, matches |-> <<>>, scanned |-> 0]
     ELSE FilterFrom(ItemsOf(results), 1, <<>>)

(***************************************************************************)
(* The records and response bodies the model draws from.                   *)
(***************************************************************************)
N(n) == NumV(Int2Num(n))

ItemGood == ObjV([Price |-> N(25000), Range |-> N(650)])
ItemAtPrice == ObjV([Price |-> N(29000), Range |-> N(650)])
ItemAtRange == ObjV([Price |-> N(25000), Range |-> N(600)])
ItemNoPrice == ObjV([Range |-> N(650)])
ItemNoRange == ObjV([Price |-> N(25000)])
ItemLongRange ==
  ObjV([PurchasePrice |-> N(27500),
        TrimName |-> StrV(<<"L", "o", "n", "g", " ", "R", "a", "n", "g", "e">>)])
ItemTrimNotText == ObjV([Price |-> N(25000), TrimName |-> N(5)])
\* A price written as fmtEUR writes one, a range with its unit.
ItemTextPrice ==
  ObjV([Price |-> StrV(<<"4", "5", ".", "9", "9", "0", " ", "E", "U", "R">>),
        Range |-> StrV(<<"6", "5", "0", " ", "k", "m">>)])

Items ==
  {ItemGood, ItemAtPrice, ItemAtRange, ItemNoPrice, ItemNoRange,
   ItemLongRange, ItemTrimNotText, ItemTextPrice, JsNull}

RECURSIVE SeqsUpTo(_, _)
SeqsUpTo(S, n) ==
  IF n = 0 THEN {<<>>}
  ELSE LET shorter == SeqsUpTo(S, n - 1)
       IN shorter \cup {Append(s, x) : s \in {q \in shorter : Len(q) = n - 1}, x \in S}

ResultLists == SeqsUpTo(Items, MaxResults)

NoKeys == [x \in {} |-> Undefined]

\* What res.json() can resolve to.
Bodies ==
  {ObjV([results |-> ArrV(l)]) : l \in ResultLists}
    \cup {ObjV([Results |-> ArrV(l)]) : l \in {q \in ResultLists : Len(q) <= 1}}
    \cup {ObjV(NoKeys), JsNull, ObjV([results |-> N(7)]),
          ObjV([results |-> StrV(<<"x", "y">>)]),
          ObjV([results |-> ArrV(<<>>), Results |-> ArrV(<<ItemGood>>)])}

(***************************************************************************)
(* The state of one run.                                                   *)
(***************************************************************************)
VARIABLES
  token,      \* TELEGRAM_TOKEN is set (truthy)
  chatId,     \* TELEGRAM_CHAT_ID is set (truthy)
  pc,         \* where the run is suspended
  status,     \* res.status of the inventory response, 0 before it
  data,       \* what res.json() resolved to
  matches,    \* the matches of the filter loop
  scanned,    \* the number of records the filter loop got through
  mi,         \* the index in matches of the match being notified
  tg,         \* the sendTelegram call in progress
  caught,     \* the catch block of main was entered
  exitCode,   \* the exit status, -1 while the process runs
  inflight,   \* the network operations started and not yet ended
  log,        \* every start and end of an operation so far, in order
  probeArg,   \* the argument of a function called on its own
  probeRet    \* what the function returned

vars == <<token, chatId, pc, status, data, matches, scanned, mi, tg, caught, exitCode,
          inflight, log, probeArg, probeRet>>

driver == <<token, chatId, pc, status, data, matches, scanned, mi, tg, caught,
            exitCode, inflight, log>>
probe == <<probeArg, probeRet>>

NoCall == [kind |-> "none", pos |-> 0]
\* The result of a function not called yet.
NotRun == [k |-> "notrun", m |-> 0, e |-> 0]
NoProbe == [what |-> "none", item |-> Undefined, text |-> <<>>, amount |-> NULL]
NoReturn == [price |-> NotRun, rangeKm |-> NotRun, number |-> NotRun]
Ev(ev, op, kind, pos) == [ev |-> ev, op |-> op, kind |-> kind, pos |-> pos]

InitDriver ==
  /\ pc = "start"
  /\ status = 0
  /\ data = Undefined
  /\ matches = <<>>
  /\ scanned = 0
  /\ mi = 0
  /\ tg = NoCall
  /\ caught = FALSE
  /\ exitCode = -1
  /\ inflight = {}
  /\ log = <<>>

Init ==
  /\ token \in BOOLEAN
  /\ chatId \in BOOLEAN
  /\ InitDriver
  /\ probeArg = NoProbe
  /\ probeRet = NoReturn

(***************************************************************************)
(* Steps shared by the actions.  lg is the log and fl the operations in    *)
(* flight once the step that leads here has ended.  An operation in flight *)
(* is named by the place of its start in the log.                          *)
(***************************************************************************)
\* The operations still in flight once the awaited one, the last started,
\* has ended.
Settled == inflight \ {i \in inflight : \A j \in inflight : j <= i}

\* fetch(...) is called: the operation starts and the flow suspends at at.
StartFetch(at, op, call, lg, fl) ==
  /\ pc' = at
  /\ tg' = call
  /\ log' = Append(lg, Ev("start", op, call.kind, call.pos))
  /\ inflight' = fl \cup {Len(lg) + 1}

\* sendTelegram(text), up to its await fetch(tgUrl, ...).
sendTelegram(kind, pos, lg, fl) ==
  StartFetch("telegramFetch", "telegram", [kind |-> kind, pos |-> pos], lg, fl)

\* process.exit(code), or the return of main with nothing left to run.
Exit(code, lg, fl) ==
  /\ pc' = "exited"
  /\ tg' = NoCall
  /\ log' = lg
  /\ inflight' = fl
  /\ exitCode' = code

Catch_NoNotify(lg, fl) ==
  /\ caught' = TRUE
  /\ Exit(1, lg, fl)

\* catch (err): the error is logged and the error message is sent, inside
\* a try of its own.
Catch(lg, fl) ==
  /\ caught' = TRUE
  /\ exitCode' = exitCode
  /\ sendTelegram("error", 0, lg, fl)

CredentialsMissing_BothOnly(t, c) == ~t /\ ~c

\* !TELEGRAM_TOKEN || !CHAT_ID
CredentialsMissing(t, c) == ~t \/ ~c

(***************************************************************************)
(* The actions: one per stretch of code between two suspensions.           *)
(***************************************************************************)
\* The credential check at the top of the module, then main up to the
\* fetch of getTeslaCookies.
Startup ==
  /\ pc = "start"
  /\ IF CredentialsMissing(token, chatId)
     THEN Exit(1, log, inflight)
     ELSE /\ StartFetch("cookieFetch", "cookie", NoCall, log, inflight)
          /\ exitCode' = exitCode
  /\ UNCHANGED <<probe, token, chatId, status, data, matches, scanned, mi, caught>>

\* The referer page answers or the fetch is rejected.  Its status is not
\* looked at; the cookies are joined inside a try of their own.  Then the
\* inventory fetch starts.
CookieResponse ==
  /\ pc = "cookieFetch"
  /\ \E outcome \in {"ok", "nonok", "fail"} :
       LET lg == Append(log, Ev(outcome, "cookie", "none", 0))
       IN IF outcome = "fail"
          THEN Catch(lg, Settled)
          ELSE /\ StartFetch("inventoryFetch", "inventory", NoCall, lg, Settled)
               /\ UNCHANGED <<caught, exitCode>>
  /\ UNCHANGED <<probe, token, chatId, status, data, matches, scanned, mi>>

Statuses == {200, 204, 403, 404, 500}
\* res.ok
IsOk(s) == s >= 200 /\ s <= 299

\* The inventory API answers or the fetch is rejected.  The body is read
\* next (403: as text; 2xx: as JSON), so the operation stays in flight.
InventoryResponse ==
  /\ pc = "inventoryFetch"
  /\ \/ /\ Catch(Append(log, Ev("fail", "inventory", "none", 0)), Settled)
        /\ UNCHANGED status
     \/ \E s \in Statuses :
          /\ status' = s
          /\ LET lg == Append(log, Ev(IF IsOk(s) THEN "ok" ELSE "nonok",
                                      "inventory", "none", 0))
             IN IF s = 403
                THEN /\ pc' = "read403Body"
                     /\ log' = lg
                     /\ UNCHANGED <<tg, inflight, caught, exitCode>>
                ELSE IF ~IsOk(s)
                THEN Catch(lg, Settled)
                ELSE /\ pc' = "readJson"
                     /\ log' = lg
                     /\ UNCHANGED <<tg, inflight, caught, exitCode>>
  /\ UNCHANGED <<probe, token, chatId, data, matches, scanned, mi>>

\* res.text().catch(() => "") settles, either way; the blocked message is
\* sent.
Read403Body ==
  /\ pc = "read403Body"
  /\ \E outcome \in {"bodyok", "bodyfail"} :
       sendTelegram("blocked", 0,
                    Append(log, Ev(outcome, "inventory", "none", 0)), Settled)
  /\ UNCHANGED <<probe, token, chatId, status, data, matches, scanned, mi, caught, exitCode>>

\* res.json() settles: rejected (the body is no JSON), or resolved to a
\* value, and then the filter loop runs to its end, main returns when
\* nothing matched, and the first match is sent otherwise.
ReadJson ==
  /\ pc = "readJson"
  /\ \/ /\ Catch(Append(log, Ev("bodyfail", "inventory", "none", 0)), Settled)
        /\ UNCHANGED <<data, matches, scanned, mi>>
     \/ \E d \in Bodies :
          LET lg == Append(log, Ev("bodyok", "inventory", "none", 0))
              out == FilterLoop(d)
          IN /\ data' = d
             /\ matches' = out.matches
             /\ scanned' = out.scanned
             /\ IF out.threw
                THEN /\ Catch(lg, Settled)
                     /\ UNCHANGED mi
                ELSE IF Len(out.matches) = 0
                THEN /\ Exit(0, lg, Settled)
                     /\ UNCHANGED <<mi, caught>>
                ELSE /\ mi' = 1
                     /\ sendTelegram("match", out.matches[1].pos, lg, Settled)
                     /\ UNCHANGED <<caught, exitCode>>
  /\ UNCHANGED <<probe, token, chatId, status>>

AfterSend_NoDelay(threw, lg) ==
  CASE tg.kind = "match" /\ ~threw /\ mi < Len(matches) ->
         /\ mi' = mi + 1
         /\ sendTelegram("match", matches[mi + 1].pos, lg, Settled)
         /\ UNCHANGED <<caught, exitCode>>
    [] tg.kind = "match" /\ ~threw /\ mi >= Len(matches) ->
         /\ Exit(0, lg, Settled)
         /\ UNCHANGED <<mi, caught>>
    [] tg.kind \in {"match", "blocked"} /\ threw ->
         /\ Catch(lg, Settled)
         /\ UNCHANGED mi
    [] OTHER ->
         /\ Exit(1, lg, Settled)
         /\ UNCHANGED <<mi, caught>>

\* sendTelegram has returned (threw = FALSE) or raised: what its caller
\* does next.  In the loop: the delay, or the catch block.  After the
\* blocked message: process.exit(1), or the catch block.  In the catch
\* block: process.exit(1), the error swallowed.
AfterSend(threw, lg) ==
  /\ mi' = mi
  /\ CASE tg.kind = "match" ->
            IF threw THEN Catch(lg, Settled)
            ELSE /\ pc' = "delay"
                 /\ log' = lg
                 /\ inflight' = Settled
                 /\ UNCHANGED <<tg, caught, exitCode>>
       [] tg.kind = "blocked" ->
            IF threw THEN Catch(lg, Settled)
            ELSE /\ Exit(1, lg, Settled)
                 /\ UNCHANGED caught
       [] OTHER ->
            /\ Exit(1, lg, Settled)
            /\ UNCHANGED caught

\* The Telegram API answers or the fetch is rejected.  On a response that
\* is not ok its body is read before it is logged.
TelegramResponse ==
  /\ pc = "telegramFetch"
  /\ \E outcome \in {"ok", "nonok", "fail"} :
       LET lg == Append(log, Ev(outcome, "telegram", tg.kind, tg.pos))
       IN IF outcome = "nonok"
          THEN /\ pc' = "telegramBody"
               /\ log' = lg
               /\ UNCHANGED <<tg, mi, inflight, caught, exitCode>>
          ELSE AfterSend(outcome = "fail", lg)
  /\ UNCHANGED <<probe, token, chatId, status, data, matches, scanned>>

\* await res.text() of a failed send settles.
TelegramBody ==
  /\ pc = "telegramBody"
  /\ \E outcome \in {"bodyok", "bodyfail"} :
       AfterSend(outcome = "bodyfail",
                 Append(log, Ev(outcome, "telegram", tg.kind, tg.pos)))
  /\ UNCHANGED <<probe, token, chatId, status, data, matches, scanned>>

\* The 400 ms timer fires: the next match is sent, or main returns.
DelayElapsed ==
  /\ pc = "delay"
  /\ LET lg == Append(log, Ev("elapsed", "timer", tg.kind, tg.pos))
     IN IF mi < Len(matches)
        THEN /\ mi' = mi + 1
             /\ sendTelegram("match", matches[mi + 1].pos, lg, inflight)
             /\ UNCHANGED <<caught, exitCode>>
        ELSE /\ Exit(0, lg, inflight)
             /\ UNCHANGED <<mi, caught>>
  /\ UNCHANGED <<probe, token, chatId, status, data, matches, scanned>>

Next ==
  \/ Startup
  \/ CookieResponse
  \/ InventoryResponse
  \/ Read403Body
  \/ ReadJson
  \/ TelegramResponse
  \/ TelegramBody
  \/ DelayElapsed

Spec == Init /\ [][Next]_vars

(***************************************************************************)
(* The functions called on their own: extractPrice and extractRangeKm on   *)
(* one record, numberFrom on one text.                                     *)
(*                                                                         *)
(* A record carries, at each candidate place, nothing, a number, a text    *)
(* with a unit, a text with no digit, an infinity or null; the values      *)
(* differ from place to place, so the result tells which place it is from. *)
(***************************************************************************)
CandValue(kind, i) ==
  CASE kind = "num" -> N(100 + i)
    [] kind = "text" -> StrV(<<Digits[i + 1], "5", "0", " ", "k", "m">>)
    [] kind = "junk" -> StrV(<<"n", "/", "a">>)
    [] kind = "inf" -> NumV(PosInf)
    [] OTHER -> JsNull

PriceKinds == {"num", "text", "junk", "inf", "null"}
RangeKinds == {"num", "text", "junk"}

\* Every way to fill at most n of the places 1..count with values of kinds.
Fillings(count, kinds, n) ==
  UNION {[S -> kinds] : S \in {T \in SUBSET (1..count) : Cardinality(T) <= n}}

PriceRecord(f) ==
  ObjV([k \in {PriceKeys[i] : i \in DOMAIN f} |->
          LET i == CHOOSE j \in DOMAIN f : PriceKeys[j] = k
          IN CandValue(f[i], i)])

\* The record with the range candidates of f and the fields of extra.
RangeRecord(f, extra) ==
  LET flat == {i \in DOMAIN f : Len(RangePaths[i]) = 1}
      nested == DOMAIN f \ flat
      flatPart == [k \in {RangePaths[i][1] : i \in flat} |->
                     LET i == CHOOSE j \in flat : RangePaths[j][1] = k
                     IN CandValue(f[i], i)]
      specPart == [k \in {RangePaths[i][2] : i \in nested} |->
                     LET i == CHOOSE j \in nested : RangePaths[j][2] = k
                     IN CandValue(f[i], i)]
  IN ObjV(IF nested = {} THEN flatPart @@ extra
          ELSE flatPart @@ [Spec |-> ObjV(specPart)] @@ extra)

\* Trim labels, each with the estimate the fallback is said to give it
\* (0: none).
Label(s, km) == [s |-> s, km |-> km]
TrimLabels ==
  {Label(<<"L", "o", "n", "g", " ", "R", "a", "n", "g", "e">>, 620),
   Label(<<"L", "R">>, 620),
   Label(<<"P", "e", "r", "f", "o", "r", "m", "a", "n", "c", "e">>, 560),
   Label(<<"P", "e", "r", "f", "o", "r", "m", "a", "n", "c", "e", " ",
           "L", "o", "n", "g", "r", "a", "n", "g", "e">>, 620),
   Label(<<"R", "e", "a", "r", "-", "W", "h", "e", "e", "l">>, 490),
   Label(<<"S", "t", "a", "n", "d", "a", "r", "d", " ", "R", "a", "n", "g", "e">>, 490),
   Label(<<"H", "e", "c", "k", "a", "n", "t", "r", "i", "e", "b">>, 490),
   Label(<<"B", "a", "s", "e">>, 0)}

\* The fields a record's trim label is read from.
TrimFields ==
  {[TrimName |-> StrV(l.s)] : l \in TrimLabels}
    \cup {[TrimName |-> StrV(<<>>), SpecName |-> StrV(l.s)] : l \in TrimLabels}
    \cup {[Trim |-> N(5)], [TrimName |-> BoolV(TRUE)], [SpecName |-> ArrV(<<>>)],
          [Spec |-> StrV(<<"6", "5", "0">>)], [Spec |-> N(650)]}

ProbeRecords ==
  {PriceRecord(f) : f \in Fillings(Len(PriceKeys), PriceKinds, Len(PriceKeys))}
    \cup {RangeRecord(f, NoKeys) : f \in Fillings(Len(RangePaths), RangeKinds, MaxPresent)}
    \cup {RangeRecord(f, x) : f \in Fillings(4, RangeKinds, 1), x \in TrimFields}
    \cup {JsNull, N(3), StrV(<<"x">>)}

(***************************************************************************)
(* Texts of amounts, as a listing would write them: the units grouped in   *)
(* threes by a separator, a point and two digits of cents when there are   *)
(* cents, a currency symbol before or after.                               *)
(***************************************************************************)
RECURSIVE DigitsOf(_)
DigitsOf(n) ==
  IF n < 10 THEN <<Digits[n + 1]>>
  ELSE Append(DigitsOf(n \div 10), Digits[(n % 10) + 1])

RECURSIVE Grouped(_, _)
Grouped(ds, sep) ==
  IF Len(ds) <= 3 THEN ds
  ELSE Grouped(SubSeq(ds, 1, Len(ds) - 3), sep) \o sep
         \o SubSeq(ds, Len(ds) - 2, Len(ds))

\* cents < 0: an amount with no cents written.
AmountText(units, cents, sep, before, after) ==
  before \o Grouped(DigitsOf(units), sep)
    \o (IF cents < 0 THEN <<>>
        ELSE <<".">> \o (IF cents < 10 THEN <<"0">> ELSE <<>>) \o DigitsOf(cents))
    \o after

AmountOf(units, cents) ==
  IF cents < 0 THEN Int2Num(units) ELSE Dec(units * 100 + cents, 2)

ProbeUnits == {0, 7, 999, 1000, 28990, 45990, 1234567}
ProbeCents == {-1, 5, 50}
\* No separator, the comma, the apostrophe, the space, and the point, which
\* is the separator of the de-DE format fmtEUR itself writes amounts in.
Separators == {<<>>, <<",">>, <<"'">>, <<" ">>, <<".">>}
SymbolsBefore == {<<>>, <<"$">>, <<"E", "U", "R", " ">>}
SymbolsAfter == {<<>>, <<" ", "E">>}

ProbeTexts ==
  {[what |-> "text", item |-> Undefined,
    text |-> AmountText(u, c, sep, b, a), amount |-> AmountOf(u, c)] :
      u \in ProbeUnits, c \in ProbeCents,
      sep \in Separators, b \in SymbolsBefore, a \in SymbolsAfter}
    \cup {[what |-> "text", item |-> Undefined, text |-> s, amount |-> NULL] :
            s \in {<<>>, <<"E">>, <<"n", "/", "a">>, <<".">>, <<"-", " ", "E">>}}

InitProbe ==
  /\ token = TRUE
  /\ chatId = TRUE
  /\ InitDriver
  /\ probeArg \in
       {[what |-> "item", item |-> r, text |-> <<>>, amount |-> NULL] :
          r \in ProbeRecords} \cup ProbeTexts
  /\ probeRet = NoReturn

CallExtractPrice ==
  /\ probeArg.what = "item"
  /\ probeRet.price = NotRun
  /\ probeRet' = [probeRet EXCEPT !.price = extractPrice(probeArg.item)]
  /\ UNCHANGED <<driver, probeArg>>

CallExtractRangeKm ==
  /\ probeArg.what = "item"
  /\ probeRet.rangeKm = NotRun
  /\ probeRet' = [probeRet EXCEPT !.rangeKm = extractRangeKm(probeArg.item)]
  /\ UNCHANGED <<driver, probeArg>>

CallNumberFrom ==
  /\ probeArg.what = "text"
  /\ probeRet.number = NotRun
  /\ probeRet' = [probeRet EXCEPT !.number = numberFrom(StrV(probeArg.text))]
  /\ UNCHANGED <<driver, probeArg>>

NextProbe ==
  \/ CallExtractPrice
  \/ CallExtractRangeKm
  \/ CallNumberFrom

SpecProbe == InitProbe /\ [][NextProbe]_vars

(***************************************************************************)
(* What the properties below read off a run.                               *)
(***************************************************************************)
\* The places in the log where a notification is attempted.
Sends == {i \in 1..Len(log) : log[i].ev = "start" /\ log[i].op = "telegram"}
SendsOf(kind) == {i \in Sends : log[i].kind = kind}

\* The elements of a set of numbers, ascending.
RECURSIVE Ascending(_)
Ascending(S) ==
  IF S = {} THEN <<>>
  ELSE LET least == CHOOSE x \in S : \A y \in S : x <= y
       IN <<least>> \o Ascending(S \ {least})

\* The records of the response, once it is parsed and is a list.
Parsed == data # Undefined
Records == IF Parsed /\ IsIterable(ResultsOf(data)) THEN ItemsOf(ResultsOf(data)) ELSE <<>>

\* A qualifying record, in the words of the specification: a price below
\* 29000 and a range above 600, neither of them null.
Qualifies(item) ==
  LET price == extractPrice(item)
      rangeKm == extractRangeKm(item)
  IN /\ IsNumber(price)
     /\ IsNumber(rangeKm)
     /\ NumLess(price, Int2Num(29000))
     /\ NumLess(Int2Num(600), rangeKm)

QualifyingPlaces == {i \in 1..Len(Records) : Qualifies(Records[i])}
InMatches(i) == \E j \in 1..Len(matches) : matches[j].pos = i

\* The filter loop ran over every record of a parsed list.
LoopRanThrough ==
  Parsed /\ IsIterable(ResultsOf(data)) /\ scanned = Len(Records)

Exited == pc = "exited"

(***************************************************************************)
(* C5.  When the bot token or the chat identifier is absent, the process   *)
(* exits with status 1 at startup and no network operation is ever         *)
(* started: no cookie fetch, no inventory fetch, no notification.          *)
(***************************************************************************)
C5_NoNetworkWithoutCredentials ==
  (~token \/ ~chatId) =>
    /\ log = <<>>
    /\ inflight = {}
    /\ pc \in {"start", "exited"}
    /\ Exited => exitCode = 1

C5_Witness == ~token /\ chatId /\ Exited /\ exitCode = 1

(***************************************************************************)
(* C6.  A record is added to the matches if and only if its extracted      *)
(* price is non-null and strictly below 29000 and its extracted range is   *)
(* non-null and strictly above 600; a record priced exactly 29000 or       *)
(* ranged exactly 600 is excluded, and so is a record whose price or range *)
(* is null, whatever the other value.  Stated of every record the loop got *)
(* through.                                                                *)
(***************************************************************************)
C6_MatchIffBelowPriceAboveRange ==
  \A i \in 1..scanned :
    LET price == extractPrice(Records[i])
        rangeKm == extractRangeKm(Records[i])
    IN /\ InMatches(i) <=> Qualifies(Records[i])
       /\ price = Int2Num(29000) => ~InMatches(i)
       /\ rangeKm = Int2Num(600) => ~InMatches(i)
       /\ (price = NULL \/ rangeKm = NULL) => ~InMatches(i)
       /\ InMatches(i) =>
            \E j \in 1..Len(matches) :
              matches[j] = [item |-> Records[i], price |-> price,
                            rangeKm |-> rangeKm, pos |-> i]

\* A list with a match, a record at the price threshold and none else.
C6_Witness ==
  /\ scanned = 2
  /\ Len(matches) = 1
  /\ \E i \in 1..2 : extractPrice(Records[i]) = Int2Num(29000)

(***************************************************************************)
(* C3.  Whenever an error is raised in the driver sequence (the cookie     *)
(* fetch or the inventory fetch is rejected, the status is neither 2xx nor *)
(* 403, the body is no JSON, the filter loop raises, or a send of a match  *)
(* or of the blocked message raises), the error notification is attempted  *)
(* next and exactly once, nothing is sent after it, and the process exits  *)
(* with status 1 whether that notification succeeds, is answered with a    *)
(* failure, or raises.                                                     *)
(***************************************************************************)
\* The event at place i of the log is one that raises in main.
Raises(i) ==
  LET e == log[i]
  IN \/ e.op = "cookie" /\ e.ev = "fail"
     \/ e.op = "inventory" /\ e.ev = "fail"
     \/ e.op = "inventory" /\ e.ev = "nonok" /\ status # 403
     \/ e.op = "inventory" /\ e.ev = "bodyfail" /\ status # 403
     \/ e.op = "inventory" /\ e.ev = "bodyok" /\ status # 403 /\ ~LoopRanThrough
     \/ e.op = "telegram" /\ e.kind # "error" /\ e.ev \in {"fail", "bodyfail"}

\* The error notification has ended: answered ok, answered with a failure
\* whose body was read or not, or rejected.
ErrorSendEnded ==
  /\ Len(log) > 0
  /\ log[Len(log)].op = "telegram"
  /\ log[Len(log)].kind = "error"
  /\ log[Len(log)].ev \in {"ok", "bodyok", "bodyfail", "fail"}

C3_ErrorNotifiedOnceThenExit1 ==
  /\ \A i \in 1..Len(log) :
       Raises(i) =>
         /\ i < Len(log)
         /\ log[i + 1] = Ev("start", "telegram", "error", 0)
         /\ SendsOf("error") = {i + 1}
         /\ \A j \in Sends : j <= i + 1
         /\ Exited => exitCode = 1
  /\ ErrorSendEnded => Exited /\ exitCode = 1
  /\ (Exited /\ SendsOf("error") # {}) => ErrorSendEnded

\* A send of a match was rejected, and so was the error notification.
C3_Witness ==
  /\ Exited
  /\ exitCode = 1
  /\ \E i \in 1..Len(log) :
       Raises(i) /\ log[i].op = "telegram" /\ log[i].kind = "match"
  /\ log[Len(log)] = Ev("fail", "telegram", "error", 0)

(***************************************************************************)
(* C1.  In every run with both credentials set in which the inventory      *)
(* fetch returns a 2xx response with a parseable body, every qualifying    *)
(* record gets exactly one notification attempt, the attempts are made in  *)
(* the order of the records, each later match is attempted even if the     *)
(* delivery of an earlier one fails, and no attempt is made for a record   *)
(* that does not qualify.  Stated of the runs whose filter loop ran over   *)
(* every record, at their end: the places of the records the match         *)
(* notifications were attempted for, in the order of the attempts, are the *)
(* places of the qualifying records, ascending.                            *)
(***************************************************************************)
MatchSendPlaces ==
  LET sends == Ascending(SendsOf("match"))
  IN [j \in 1..Len(sends) |-> log[sends[j]].pos]

C1_EveryMatchNotifiedInOrder ==
  (Exited /\ LoopRanThrough) => MatchSendPlaces = Ascending(QualifyingPlaces)

(***************************************************************************)
(* C2.  When the inventory fetch returns HTTP 403, exactly one             *)
(* notification is sent in the whole run, it carries the blocked wording   *)
(* and not the generic error wording, no match notification is sent, and   *)
(* the process exits with status 1.                                        *)
(***************************************************************************)
C2_On403OneBlockedNotification ==
  (Exited /\ status = 403) =>
    /\ Cardinality(Sends) = 1
    /\ \A i \in Sends : log[i].kind = "blocked"
    /\ exitCode = 1

(***************************************************************************)
(* C4.  When the inventory fetch returns 2xx and no record passes the      *)
(* filter (the result list is empty, the results key is missing under both *)
(* casings, or every record is excluded), no notification call is made in  *)
(* the run and the process completes with exit status 0.                   *)
(***************************************************************************)
C4_NoMatchNoNotificationExit0 ==
  (/\ Exited
   /\ Parsed
   /\ ResultsOf(data).t = "array"
   /\ QualifyingPlaces = {}) =>
    /\ Sends = {}
    /\ exitCode = 0

(***************************************************************************)
(* C7.  At most one network operation is in flight at any moment: the      *)
(* cookie fetch has its response before the inventory fetch starts, the    *)
(* inventory fetch has its response before the first notification starts,  *)
(* and each notification starts only after the previous notification has   *)
(* received its response and the inter-notification delay has then         *)
(* elapsed.                                                                *)
(***************************************************************************)
IsResponse(e, op) == e.op = op /\ e.ev \in {"ok", "nonok"}
\* Between places i and j of the log, a response to op and then the delay.
RespondedBetween(i, j, op) ==
  \E r \in (i + 1)..(j - 1) : IsResponse(log[r], op)
DelayedBetween(i, j) ==
  \E r \in (i + 1)..(j - 1) :
    /\ IsResponse(log[r], "telegram")
    /\ \E d \in (r + 1)..(j - 1) : log[d].ev = "elapsed"

StartsOf(op) == {i \in 1..Len(log) : log[i].ev = "start" /\ log[i].op = op}

C7_Original_ResponseAndDelayBeforeEverySend ==
  /\ Cardinality(inflight) <= 1
  /\ \A i \in StartsOf("inventory") :
       \E c \in StartsOf("cookie") : c < i /\ RespondedBetween(c, i, "cookie")
  /\ \A i \in Sends :
       \E f \in StartsOf("inventory") : f < i /\ RespondedBetween(f, i, "inventory")
  /\ \A i \in Sends : \A p \in Sends :
       (p < i /\ \A q \in Sends : ~(p < q /\ q < i)) => DelayedBetween(p, i)

(***************************************************************************)
(* C7, amended.  At most one network operation is in flight at any moment: *)
(* an operation starts only once the one before it has ended, with its     *)
(* response (and the reading of its body) or with its failure; the         *)
(* inventory fetch starts only after the response to the cookie fetch; a   *)
(* match notification starts only after the inventory response was read,   *)
(* and each match notification after the first only after the one before   *)
(* it was answered and the delay has then elapsed.  The blocked and the    *)
(* error notification start as soon as the operation before them has       *)
(* ended, with no delay.                                                   *)
(***************************************************************************)
\* The event ends its operation (the timer included).
Terminal(e) ==
  \/ e.ev \in {"fail", "bodyok", "bodyfail", "elapsed"}
  \/ e.ev = "ok" /\ e.op \in {"cookie", "telegram"}
  \/ e.ev = "nonok" /\ e.op = "cookie"
  \/ e.ev = "nonok" /\ e.op = "inventory" /\ status # 403

AllStarts == {i \in 1..Len(log) : log[i].ev = "start"}

C7_OneInFlightDelayBetweenMatches ==
  /\ Cardinality(inflight) <= 1
  /\ \A i \in AllStarts :
       /\ i > 1 => Terminal(log[i - 1])
       /\ \A p \in AllStarts : p < i => \E r \in (p + 1)..(i - 1) :
            log[r].op = log[p].op /\ Terminal(log[r])
  /\ \A i \in StartsOf("inventory") : i > 1 /\ IsResponse(log[i - 1], "cookie")
  /\ \A i \in SendsOf("match") :
       \E r \in 1..(i - 1) :
         /\ log[r] = Ev("ok", "inventory", "none", 0)
         /\ log[r + 1] = Ev("bodyok", "inventory", "none", 0)
  /\ \A i \in SendsOf("match") : \A p \in Sends :
       (p < i /\ \A q \in Sends : ~(p < q /\ q < i)) =>
         log[p].kind = "match" /\ DelayedBetween(p, i)

\* Two matches were sent, the second send raised, and the error
\* notification followed it at once.
C7_Witness ==
  /\ Cardinality(SendsOf("match")) = 2
  /\ \E i \in SendsOf("error") :
       log[i - 1].op = "telegram" /\ log[i - 1].kind = "match"

(***************************************************************************)
(* C8.  For every listing record, whatever its keys and the types of their *)
(* values, price extraction and range extraction return a number or null   *)
(* and never raise; a record for which either returns null is skipped and  *)
(* the remaining records of the response are still extracted, filtered and *)
(* notified.  Stated of a parsed result list: the loop gets through every  *)
(* record of it.                                                           *)
(***************************************************************************)
C8_ExtractionNeverRaises ==
  (Parsed /\ ResultsOf(data).t = "array") =>
    /\ scanned = Len(Records)
    /\ \A i \in 1..Len(Records) :
         /\ extractPrice(Records[i]) # THROWN
         /\ extractRangeKm(Records[i]) # THROWN

(***************************************************************************)
(* What the properties of the extractors read off a record.                *)
(***************************************************************************)
\* The value at a candidate location: a field of the record, or a field of
\* the object its Spec field holds.
At(item, path) ==
  IF Len(path) = 1 THEN OptGet(item, path[1])
  ELSE LET inner == OptGet(item, path[1])
       IN IF inner.t = "object" THEN Get(inner, path[2]) ELSE Undefined

PriceCand(item, i) == numberFrom(OptGet(item, PriceKeys[i]))
RangeCand(item, i) == numberFrom(At(item, RangePaths[i]))

\* The first place in 1..n whose candidate is accepted, 0 when none is.
FirstPlace(n, Accepted(_)) ==
  IF \E i \in 1..n : Accepted(i)
  THEN CHOOSE i \in 1..n : Accepted(i) /\ \A j \in 1..(i - 1) : ~Accepted(j)
  ELSE 0

\* The estimate the fallback is said to give a label: that of the table.
SaidEstimate(label) ==
  IF label.t = "string" /\ \E l \in TrimLabels : l.s = label.s /\ l.km # 0
  THEN Int2Num((CHOOSE l \in TrimLabels : l.s = label.s).km)
  ELSE NULL

PriceRan == probeArg.what = "item" /\ probeRet.price # NotRun
RangeRan == probeArg.what = "item" /\ probeRet.rangeKm # NotRun

HasDigit(s) == \E i \in 1..Len(s) : IsDigit(s[i])

C10_TextYieldsWrittenAmount ==
  (probeArg.what = "text" /\ probeRet.number # NotRun) =>
    probeRet.number = IF HasDigit(probeArg.text) THEN probeArg.amount ELSE NULL

=============================================================================
